------------------------------ MODULE Spec2Model ------------------------------
(***************************************************************************)
(* Serial device session of EM-Zilla: js/usb-detector.js (USBDetector and  *)
(* USBStatusMonitor).  Text is modelled as sequences of one-character      *)
(* strings, so that includes / substring / trim are computed, not assumed. *)
(* An action is the code that runs between two suspension points (an       *)
(* await on port I/O, a timer or a permission prompt): JavaScript runs     *)
(* that code without interleaving.                                         *)
(***************************************************************************)
EXTENDS Integers, Sequences, FiniteSets, TLC

(***************************************************************************)
(* Text.                                                                   *)
(***************************************************************************)
MarkerSetup ==
    <<"v","o","i","d"," ","s","e","t","u","p","(",")">>

MarkerLoop ==
    <<"v","o","i","d"," ","l","o","o","p","(",")">>

EnvelopeHead ==
    <<"/","/"," ","U","p","l","o","a","d","e","d"," ","b","y"," ","V","i","t","a","C","o","d",
      "e","r"," ","P","r","o","\n">>

EnvelopeSetup ==
    <<"\n","\n","v","o","i","d"," ","s","e","t","u","p","(",")"," ","{","\n"," "," "," "," ",
      "S","e","r","i","a","l",".","b","e","g","i","n","(","9","6","0","0",")",";","\n"," "," ",
      " "," ">>

EnvelopeLoop ==
    <<"\n","}","\n","\n","v","o","i","d"," ","l","o","o","p","(",")"," ","{","\n"," "," "," ",
      " ","/","/"," ","Y","o","u","r"," ","c","o","d","e"," ","r","u","n","s"," ","h","e","r",
      "e","\n","}">>

\* String.prototype.includes
Includes(str, sub) ==
    \E i \in 0..(Len(str) - Len(sub)) : SubSeq(str, i + 1, i + Len(sub)) = sub

\* String.prototype.substring(from, to) for 0 <= from <= to, to clamped to the length
Substring(str, from, to) ==
    SubSeq(str, from + 1, IF to > Len(str) THEN Len(str) ELSE to)

\* A JavaScript value that is either undefined or a string
Undefined == [defined |-> FALSE, text |-> <<>>]

\* What a call of a text function yields: the text it returns, or a TypeError
TextReturned(text) == [res |-> "return", text |-> text]

TextThrown == [res |-> "throw", text |-> <<>>]

StringValue(s) == [defined |-> TRUE, text |-> s]

\* `value || ''` : undefined and the empty string are falsy
OrEmpty(v) == IF v.defined /\ v.text # <<>> THEN v.text ELSE <<>>

\* A faulty envelope: the repeating-section marker is misspelt
EnvelopeNoLoopMarker(code, options) ==
    EnvelopeHead \o OrEmpty(options.libraries) \o EnvelopeSetup \o code
        \o <<"\n","}","\n","\n","v","o","i","d"," ","m","a","i","n","(",")"," ","{","}">>

\* The template literal of wrapCodeForUpload
Envelope(code, options) ==
    EnvelopeHead \o OrEmpty(options.libraries) \o EnvelopeSetup \o code \o EnvelopeLoop

\* options is an object with a libraries property (possibly undefined), or
\* null: reading options.libraries of null throws
wrapCodeForUpload(code, options) ==
    IF Includes(code, MarkerSetup) /\ Includes(code, MarkerLoop)
    THEN TextReturned(code)
    ELSE IF options.isNull
    THEN TextThrown
    ELSE TextReturned(Envelope(code, options))

ChunkSize == 64

RECURSIVE ChunksFrom(_, _, _)
ChunksFrom(str, i, chunkSize) ==
    IF i < Len(str)
    THEN <<Substring(str, i, i + chunkSize)>> \o ChunksFrom(str, i + chunkSize, chunkSize)
    ELSE <<>>

\* A faulty chunkString: the loop keeps whole chunks only
\* (i + chunkSize <= str.length)
chunkStringWholeOnly(str, chunkSize) ==
    LET RECURSIVE Go(_)
        Go(i) == IF i + chunkSize <= Len(str)
                 THEN <<Substring(str, i, i + chunkSize)>> \o Go(i + chunkSize)
                 ELSE <<>>
    IN Go(0)

chunkString(str, chunkSize) == ChunksFrom(str, 0, chunkSize)

RECURSIVE Concat(_)
Concat(seqs) == IF seqs = <<>> THEN <<>> ELSE Head(seqs) \o Concat(Tail(seqs))

(***************************************************************************)
(* Letter case and whitespace.                                             *)
(***************************************************************************)
UpperCase ==
    <<"A","B","C","D","E","F","G","H","I","J","K","L","M","N","O","P","Q","R","S","T","U","V",
      "W","X","Y","Z">>

LowerCase ==
    <<"a","b","c","d","e","f","g","h","i","j","k","l","m","n","o","p","q","r","s","t","u","v",
      "w","x","y","z">>

LowerChar(c) ==
    IF \E i \in 1..Len(UpperCase) : UpperCase[i] = c
    THEN LowerCase[CHOOSE i \in 1..Len(UpperCase) : UpperCase[i] = c]
    ELSE c

\* String.prototype.toLowerCase
ToLowerCase(str) == [i \in 1..Len(str) |-> LowerChar(str[i])]

WhiteSpace == {" ", "\n", "\r", "\t"}

\* String.prototype.trim
RECURSIVE TrimLeft(_)
TrimLeft(str) ==
    IF str # <<>> /\ Head(str) \in WhiteSpace THEN TrimLeft(Tail(str)) ELSE str

RECURSIVE TrimRight(_)
TrimRight(str) ==
    IF str # <<>> /\ str[Len(str)] \in WhiteSpace
    THEN TrimRight(SubSeq(str, 1, Len(str) - 1))
    ELSE str

Trim(str) == TrimRight(TrimLeft(str))

(***************************************************************************)
(* Board labels, signature table, probe commands and device replies.       *)
(***************************************************************************)
LabelUno ==
    <<"u","n","o">>

LabelNano ==
    <<"n","a","n","o">>

LabelEsp32 ==
    <<"e","s","p","3","2">>

LabelMega ==
    <<"m","e","g","a">>

LabelMega2560 ==
    <<"m","e","g","a","2","5","6","0">>

LabelLeonardo ==
    <<"l","e","o","n","a","r","d","o">>

LabelGeneric ==
    <<"g","e","n","e","r","i","c">>

LabelUnknown ==
    <<"u","n","k","n","o","w","n">>

NoLabel == <<>>

\* product = -1 stands for `product: null` (match on the vendor alone)
arduinoSignatures ==
    << [key |-> <<"U","N","O">>,                             vendor |-> 9025, product |-> 67],
       [key |-> <<"U","N","O","_","R","3">>,                 vendor |-> 9025, product |-> 67],
       [key |-> <<"N","A","N","O">>,                         vendor |-> 9025, product |-> 16],
       [key |-> <<"N","A","N","O","_","C","L","O","N","E">>, vendor |-> 6790, product |-> 29987],
       [key |-> <<"M","E","G","A">>,                         vendor |-> 9025, product |-> 16],
       [key |-> <<"M","E","G","A","2","5","6","0">>,         vendor |-> 9025, product |-> 66],
       [key |-> <<"L","E","O","N","A","R","D","O">>,         vendor |-> 9025, product |-> 54],
       [key |-> <<"E","S","P","3","2">>,                     vendor |-> 4292, product |-> 60000],
       [key |-> <<"G","E","N","E","R","I","C">>,             vendor |-> 9025, product |-> -1] >>

SignatureMatches(sig, info) ==
    info.usbVendorId = sig.vendor /\ (sig.product = -1 \/ info.usbProductId = sig.product)

\* The first table entry, in insertion order, that matches; 0 when none does
FirstSignature(info) ==
    IF \E i \in 1..Len(arduinoSignatures) : SignatureMatches(arduinoSignatures[i], info)
    THEN CHOOSE i \in 1..Len(arduinoSignatures) :
            /\ SignatureMatches(arduinoSignatures[i], info)
            /\ \A j \in 1..(i - 1) : ~SignatureMatches(arduinoSignatures[j], info)
    ELSE 0

\* A faulty descriptor match: the last table entry that matches wins
identifyByUSBInfoLastMatch(info) ==
    IF info.usbVendorId # 0 /\ info.usbProductId # 0 /\ FirstSignature(info) # 0
    THEN ToLowerCase(arduinoSignatures[
             CHOOSE i \in 1..Len(arduinoSignatures) :
                /\ SignatureMatches(arduinoSignatures[i], info)
                /\ \A j \in (i + 1)..Len(arduinoSignatures) :
                       ~SignatureMatches(arduinoSignatures[j], info)].key)
    ELSE NoLabel

\* identifyByUSBInfo: an id of 0 is falsy (so is an id the port does not report)
identifyByUSBInfo(info) ==
    IF info.usbVendorId # 0 /\ info.usbProductId # 0 /\ FirstSignature(info) # 0
    THEN ToLowerCase(arduinoSignatures[FirstSignature(info)].key)
    ELSE NoLabel

\* quickIdentifyPort: the model of the device record, NoLabel for `null`
quickIdentifyPort(info) ==
    IF FirstSignature(info) # 0
    THEN ToLowerCase(arduinoSignatures[FirstSignature(info)].key)
    ELSE NoLabel

\* A faulty fallback: it looks at the product id as behavioralGuess does
fallbackLabelByProduct(info) ==
    IF info.usbVendorId = 9025 /\ info.usbProductId = 67 THEN LabelUno
    ELSE IF info.usbVendorId = 6790 THEN LabelNano
    ELSE IF info.usbVendorId = 4292 THEN LabelEsp32
    ELSE LabelGeneric

\* A faulty fallback: its last return is 'unknown'
fallbackLabelNoDefault(info) ==
    IF info.usbVendorId = 9025 THEN LabelUno
    ELSE IF info.usbVendorId = 6790 THEN LabelNano
    ELSE IF info.usbVendorId = 4292 THEN LabelEsp32
    ELSE LabelUnknown

fallbackLabel(info) ==
    IF info.usbVendorId = 9025 THEN LabelUno
    ELSE IF info.usbVendorId = 6790 THEN LabelNano
    ELSE IF info.usbVendorId = 4292 THEN LabelEsp32
    ELSE LabelGeneric

behavioralLabel(info) ==
    IF info.usbVendorId = 9025 /\ info.usbProductId = 67 THEN LabelUno
    ELSE IF info.usbVendorId = 9025 /\ info.usbProductId = 66 THEN LabelMega2560
    ELSE IF info.usbVendorId = 9025 /\ info.usbProductId = 54 THEN LabelLeonardo
    ELSE IF info.usbVendorId = 6790 THEN LabelNano
    ELSE IF info.usbVendorId = 4292 THEN LabelEsp32
    ELSE LabelGeneric

mapResponseToModel(response) ==
    LET lowerResponse == ToLowerCase(response) IN
    IF Includes(lowerResponse, LabelEsp32) THEN LabelEsp32
    ELSE IF Includes(lowerResponse, LabelUno) THEN LabelUno
    ELSE IF Includes(lowerResponse, LabelNano) THEN LabelNano
    ELSE IF Includes(lowerResponse, LabelMega) THEN LabelMega
    ELSE IF Includes(lowerResponse, LabelLeonardo) THEN LabelLeonardo
    ELSE LabelGeneric

CmdGMR ==
    <<"A","T","+","G","M","R","\r","\n">>

CmdATI ==
    <<"A","T","I","\r","\n">>

CmdLine ==
    <<"\r","\n">>

CmdAT ==
    <<"A","T","\r","\n">>

\* identifyByCommandResponse: the commands with the substring each expects
commands ==
    << [command |-> CmdGMR,  expected |-> <<"E","S","P","3","2">>],
       [command |-> CmdATI,  expected |-> <<"A","r","d","u","i","n","o">>],
       [command |-> CmdLine, expected |-> <<"r","e","a","d","y">>] >>

commonBaudRates == <<9600, 115200, 57600, 38400, 19200, 14400>>

ReplyESP ==
    <<"E","S","P","3","2","-","D","0","\r","\n">>

ReplyUno ==
    <<"A","r","d","u","i","n","o"," ","U","n","o","\r","\n">>

ReplyReady ==
    <<"r","e","a","d","y","\r","\n">>

ReplyJunk ==
    <<"?","?","\n">>

ReplyBlank ==
    <<"\r","\n">>

\* What a device may send in answer to a probe, up to its line terminator
Replies == {ReplyESP, ReplyUno, ReplyReady, ReplyJunk, ReplyBlank}


(***************************************************************************)
(* State.                                                                  *)
(***************************************************************************)
NPorts == 2

Ports == 1..NPorts

\* `null` for this.port, this.reader and this.writer
NoPort == 0

\* A reader or a writer is named by the port whose stream it locks: every
\* getReader()/getWriter() of the code is stored in this.reader/this.writer,
\* so the field always names the most recently created one.
Tasks == {"user", "poll", "up", "disc", "health"}

\* usbVendorId / usbProductId of the ports a user may grant
Descriptors ==
    { [usbVendorId |-> 9025, usbProductId |-> 67],    \* 0x2341 / 0x0043
      [usbVendorId |-> 9025, usbProductId |-> 0],     \* 0x2341, no product id
      [usbVendorId |-> 6790, usbProductId |-> 21795], \* 0x1A86 / 0x5523
      [usbVendorId |-> 1027, usbProductId |-> 24577] }\* 0x0403 / 0x6001

\* The ports of a session: port 1 is a board identifyByUSBInfo does not
\* match, port 2 an Arduino Uno
SessionPorts ==
    { f \in [Ports -> Descriptors] :
        /\ f[1].usbProductId # 67
        /\ f[1].usbVendorId # 6790
        /\ f[2].usbProductId = 67 }

\* connectionCallbacks / disconnectionCallbacks / statusCallbacks in insertion
\* order: the monitor registers in its constructor, the application after it.
connectionCallbacks == <<"monitor", "appThrows", "app">>

disconnectionCallbacks == <<"monitor", "appThrows", "app">>

statusCallbacks == <<"uiThrows", "ui">>

VARIABLES
    supported,        \* 'serial' in navigator
    info,             \* port -> what getInfo() returns
    granted,          \* ports navigator.serial.getPorts() returns
    inputs,           \* the source texts and options callers upload
    port, reader, writer, isConnected, isScanning, detectedDevices,
    isMonitoring, monitorInterval, timers,
    popen,            \* port -> "closed" | "opening" | "opened" | "closing"
    rlock,            \* port -> "free" | "read" (a read is pending) | "stuck"
    wlock,            \* port -> the writable stream is locked
    pc, op, ctx, k, tport,   \* per task: position, operation, locals
    out,              \* per task: how its last operation ended
    upChunks, wire,   \* the chunks of the upload; what reached the ports
    lastNote, lastStatus,    \* the last observer dispatches
    ident,            \* how the last identifyModel ended
    baud,             \* how the last detectBaudRate went
    upIn,             \* the source and options of the upload
    wrapped,          \* the result of the last direct wrapCodeForUpload call
    lastCall,         \* the task of the latest call
    calls, budget     \* operations started so far, and how many may start

vars ==
    <<supported, info, granted, inputs, port, reader, writer, isConnected, isScanning,
      detectedDevices, isMonitoring, monitorInterval, timers, popen, rlock, wlock,
      pc, op, ctx, k, tport, out, upChunks, wire, lastNote, lastStatus,
      ident, baud, upIn, wrapped, lastCall, calls, budget>>

\* The state as one record, so that the statements of a handler compose
St ==
    [ supported |-> supported, info |-> info, granted |-> granted, inputs |-> inputs,
      port |-> port, reader |-> reader, writer |-> writer, isConnected |-> isConnected,
      isScanning |-> isScanning, detectedDevices |-> detectedDevices,
      isMonitoring |-> isMonitoring, monitorInterval |-> monitorInterval, timers |-> timers,
      popen |-> popen, rlock |-> rlock, wlock |-> wlock,
      pc |-> pc, op |-> op, ctx |-> ctx, k |-> k, tport |-> tport, out |-> out,
      upChunks |-> upChunks, wire |-> wire, lastNote |-> lastNote, lastStatus |-> lastStatus,
      ident |-> ident, baud |-> baud, upIn |-> upIn, wrapped |-> wrapped, lastCall |-> lastCall,
      calls |-> calls, budget |-> budget ]

Commit(s) ==
    /\ supported' = s.supported /\ info' = s.info /\ granted' = s.granted
    /\ inputs' = s.inputs
    /\ port' = s.port /\ reader' = s.reader /\ writer' = s.writer
    /\ isConnected' = s.isConnected /\ isScanning' = s.isScanning
    /\ detectedDevices' = s.detectedDevices
    /\ isMonitoring' = s.isMonitoring /\ monitorInterval' = s.monitorInterval
    /\ timers' = s.timers
    /\ popen' = s.popen /\ rlock' = s.rlock /\ wlock' = s.wlock
    /\ pc' = s.pc /\ op' = s.op /\ ctx' = s.ctx /\ k' = s.k /\ tport' = s.tport
    /\ out' = s.out /\ upChunks' = s.upChunks /\ wire' = s.wire
    /\ lastNote' = s.lastNote /\ lastStatus' = s.lastStatus
    /\ ident' = s.ident /\ baud' = s.baud /\ upIn' = s.upIn /\ wrapped' = s.wrapped
    /\ lastCall' = s.lastCall /\ calls' = s.calls /\ budget' = s.budget

Resolved(text) == [ok |-> TRUE, text |-> text, err |-> ""]

Rejected(e) == [ok |-> FALSE, text |-> <<>>, err |-> e]

Returned(label) == [res |-> "return", label |-> label, err |-> ""]

Thrown(e) == [res |-> "throw", label |-> NoLabel, err |-> e]

NoOutcome == [op |-> "none", res |-> "none", label |-> NoLabel, err |-> ""]

NoIdent == [res |-> "none", label |-> NoLabel, err |-> "", by |-> "none", vendor |-> 0]

\* detectBaudRate: what it returned (a rate, or null), the answer to the
\* probe at that rate, and the rates at which port.close() resolved
NoBaud == [res |-> "none", rate |-> 0, reply |-> <<>>, closed |-> <<>>]

EmptyOptions == [isNull |-> FALSE, libraries |-> Undefined]

NullOptions == [isNull |-> TRUE, libraries |-> Undefined]

NoInput == [code |-> <<>>, options |-> EmptyOptions]

NoWrap == [n |-> 0, source |-> <<>>, code |-> <<>>, options |-> EmptyOptions,
           res |-> "none", text |-> <<>>]

NoNote == [event |-> "none", model |-> NoLabel, to |-> <<>>, connected |-> FALSE,
           port |-> NoPort]

NoStatus == [event |-> "none", connected |-> FALSE, to |-> <<>>, at |-> FALSE]

(***************************************************************************)
(* Observers.                                                              *)
(***************************************************************************)
\* A faulty forEach: the first callback that throws ends the dispatch
DispatchUntilThrow(callbacks, throws) ==
    IF \E i \in 1..Len(callbacks) : callbacks[i] \in throws
    THEN SubSeq(callbacks, 1, CHOOSE i \in 1..Len(callbacks) :
                    /\ callbacks[i] \in throws
                    /\ \A j \in 1..(i - 1) : callbacks[j] \notin throws)
    ELSE callbacks

\* callbacks.forEach(cb => { try { cb(...) } catch { log } }): the callbacks
\* invoked, in order, when those in `throws` throw
Dispatch(callbacks, throws) ==
    [i \in 1..Len(callbacks) |-> callbacks[i]]

\* The observers whose callback throws
Throwing == {"appThrows", "uiThrows"}

notifyStatus(s, event, connected) ==
    [s EXCEPT !.lastStatus = [event |-> event, connected |-> connected,
                              to |-> Dispatch(statusCallbacks, Throwing),
                              at |-> s.isConnected]]

startMonitoring(s) ==
    IF s.isMonitoring THEN s
    ELSE [s EXCEPT !.isMonitoring = TRUE, !.monitorInterval = TRUE, !.timers = @ + 1]

stopMonitoring(s) ==
    LET s1 == IF s.monitorInterval
              THEN [s EXCEPT !.monitorInterval = FALSE, !.timers = @ - 1]
              ELSE s
    IN [s1 EXCEPT !.isMonitoring = FALSE]

\* handleConnection: port.getInfo() throws on a null port, before anything else
handleConnection(s) ==
    IF s.port = NoPort THEN s
    ELSE startMonitoring(notifyStatus(s, "connected", TRUE))

handleDisconnection(s) == notifyStatus(s, "disconnected", FALSE)

notifyConnection(s, model) ==
    LET to == Dispatch(connectionCallbacks,
                       Throwing \cup (IF s.port = NoPort THEN {"monitor"} ELSE {}))
        s1 == IF \E i \in 1..Len(to) : to[i] = "monitor" THEN handleConnection(s) ELSE s
    IN [s1 EXCEPT !.lastNote = [event |-> "connection", model |-> model, to |-> to,
                                connected |-> s.isConnected, port |-> s.port]]

notifyDisconnection(s) ==
    LET to == Dispatch(disconnectionCallbacks, Throwing)
        s1 == IF \E i \in 1..Len(to) : to[i] = "monitor" THEN handleDisconnection(s) ELSE s
    IN [s1 EXCEPT !.lastNote = [event |-> "disconnection", model |-> NoLabel, to |-> to,
                                connected |-> s.isConnected, port |-> s.port]]


(***************************************************************************)
(* Ends of operations.                                                     *)
(***************************************************************************)
Finish(s, t, o) ==
    [s EXCEPT !.pc[t] = "idle", !.ctx[t] = "none", !.k[t] = 0, !.tport[t] = NoPort,
              !.out[t] = [op |-> s.op[t], res |-> o.res, label |-> o.label, err |-> o.err]]

\* A faulty attemptReconnect: the error of the scan or the detection escapes
EndTickRethrows(s, t, o) ==
    Finish(IF o.res = "throw" THEN s ELSE notifyStatus(s, "status", FALSE), t, o)

\* checkConnectionStatus after attemptReconnect: the status read at the start
\* of the tick (it said connected: false) goes to the observers
EndTick(s, t, o) ==
    Finish(notifyStatus(s, "status", FALSE), t, [o EXCEPT !.res = "return"])

\* detectArduino, lines 61-65 and its catch, lines 67-71.  In a poll tick
\* attemptReconnect swallows the error.
\* A faulty detectArduino: the observers are notified on failure too
EndDetectAlwaysNotifies(s, t, o) ==
    LET s1 == notifyConnection([s EXCEPT !.isConnected = (o.res = "return")], o.label)
    IN IF s.op[t] = "tick" THEN EndTick(s1, t, o) ELSE Finish(s1, t, o)

EndDetect(s, t, o) ==
    LET s1 == IF o.res = "return"
              THEN notifyConnection([s EXCEPT !.isConnected = TRUE], o.label)
              ELSE [s EXCEPT !.isConnected = FALSE]
    IN IF s.op[t] = "tick" THEN EndTick(s1, t, o) ELSE Finish(s1, t, o)

\* identifyModel ends with o, reached through `by`; then its caller goes on
AfterIdentify(s, t, o, by) ==
    LET s1 == [s EXCEPT !.ident = [res |-> o.res, label |-> o.label, err |-> o.err, by |-> by,
                                   vendor |-> IF s.port = NoPort THEN 0
                                              ELSE s.info[s.port].usbVendorId]]
    IN IF s.op[t] \in {"detect", "tick"} THEN EndDetect(s1, t, o) ELSE Finish(s1, t, o)

\* fallbackIdentification; a TypeError on a null port reaches the outer catch
\* of identifyModel, which returns 'unknown'
fallbackIdentification(s, t) ==
    IF s.port = NoPort
    THEN AfterIdentify(s, t, Returned(LabelUnknown), "catch")
    ELSE AfterIdentify(s, t, Returned(fallbackLabel(s.info[s.port])), "fallback")

\* behavioralGuess at the end of identifyByBehavior; its TypeError on a null
\* port is caught by the loop over the methods, and the fallback follows
behavioralGuess(s, t) ==
    IF s.port = NoPort
    THEN fallbackIdentification(s, t)
    ELSE AfterIdentify(s, t, Returned(behavioralLabel(s.info[s.port])), "behavior")

(***************************************************************************)
(* Stream locks.                                                           *)
(***************************************************************************)
\* reader.releaseLock() on the reader of port r; a read still pending on it
\* ends as `how` ("readDone" after cancel(), "readAborted" otherwise)
ReleaseReader(s, r, how) ==
    IF s.rlock[r] = "free" THEN s
    ELSE [s EXCEPT !.rlock[r] = "free",
                   !.pc = [u \in Tasks |->
                             IF s.pc[u] = "read" /\ s.tport[u] = r THEN how ELSE s.pc[u]]]

\* `finally { this.reader.releaseLock() }` of readResponse run by task t whose
\* own reader is on port p: it releases whatever this.reader names now
FinallyReleaseReader(s, t, p) ==
    LET own == IF s.reader = p THEN s
               ELSE [s EXCEPT !.rlock[p] = IF @ = "free" THEN "free" ELSE "stuck"]
    IN IF s.reader = NoPort THEN [st |-> own, threw |-> TRUE]
       ELSE [st |-> ReleaseReader(own, s.reader, "readAborted"), threw |-> FALSE]

\* The entries the record of an upload holds at most
MaxWire == 6

\* What the ports received while an upload was in flight, in order
Log(s, t, p, data) ==
    IF s.pc["up"] # "idle"
    THEN [s EXCEPT !.wire = Append(@, [ev |-> "write", by |-> t, port |-> p, data |-> data])]
    ELSE s

\* A disconnect() call, or its return, on the record of the upload in flight
Mark(s, ev) ==
    IF s.pc["up"] # "idle"
    THEN [s EXCEPT !.wire = Append(@, [ev |-> ev, by |-> "disc", port |-> NoPort,
                                       data |-> <<>>])]
    ELSE s

\* port.close() resolved: the port is closed
ClosePort(s, p) == [s EXCEPT !.popen[p] = "closed"]


(***************************************************************************)
(* sendCommand, readResponse, detectBaudRate and the identification ladder.*)
(* Each operator runs the code from where the task resumes to its next     *)
(* suspension and returns the state at that point.                         *)
(***************************************************************************)
RECURSIVE sendCommand(_, _, _, _), AfterCommand(_, _, _, _, _), detectBaudRate(_, _, _)

\* identifyByCommandResponse from command i on
identifyByCommandResponse(s, t, i) == sendCommand(s, t, "cr", i)

\* identifyByBehavior: its first statement is sendCommand('\r\n', 500)
identifyByBehavior(s, t) == sendCommand(s, t, "beh", 0)

\* sendCommand up to `await this.writer.write(...)`, lines 207-217.
\* port.writable is null unless the port is opened.
sendCommand(s, t, c, i) ==
    IF s.port = NoPort
    THEN AfterCommand(s, t, c, i, Rejected("PortNotOpen"))
    ELSE IF s.popen[s.port] # "opened" \/ s.wlock[s.port]
    THEN AfterCommand(s, t, c, i, Rejected("TypeError"))
    ELSE [s EXCEPT !.writer = s.port, !.wlock[s.port] = TRUE,
                   !.pc[t] = "write", !.ctx[t] = c, !.k[t] = i, !.tport[t] = s.port]

\* readResponse up to its first `await this.reader.read()`, lines 234-246,
\* called from the promise executor of sendCommand
readResponse(s, t, c, i) ==
    IF s.port = NoPort
    THEN AfterCommand(s, t, c, i, Rejected("PortNotOpen"))
    ELSE IF s.popen[s.port] # "opened" \/ s.rlock[s.port] # "free"
    THEN AfterCommand(s, t, c, i, Rejected("TypeError"))
    ELSE [s EXCEPT !.reader = s.port, !.rlock[s.port] = "read",
                   !.pc[t] = "read", !.ctx[t] = c, !.k[t] = i, !.tport[t] = s.port]

\* sendCommand after the write resolved, lines 218-230
AfterWrite(s, t) ==
    IF s.writer = NoPort
    THEN AfterCommand(s, t, s.ctx[t], s.k[t], Rejected("TypeError"))
    ELSE readResponse([s EXCEPT !.wlock[s.writer] = FALSE], t, s.ctx[t], s.k[t])

\* The caller of sendCommand once it settled with r
AfterCommand(s, t, c, i, r) ==
    CASE c = "cr" ->
            IF r.ok /\ r.text # <<>> /\ Includes(r.text, commands[i].expected)
            THEN AfterIdentify(s, t, Returned(mapResponseToModel(r.text)), "command")
            ELSE IF i < Len(commands)
            THEN identifyByCommandResponse(s, t, i + 1)
            ELSE identifyByBehavior(s, t)
      [] c = "beh" ->
            IF r.ok THEN detectBaudRate([s EXCEPT !.baud = NoBaud], t, 1)
            ELSE fallbackIdentification(s, t)
      [] c = "baud" ->
            IF r.ok
            THEN behavioralGuess([s EXCEPT !.baud = [@ EXCEPT !.res = "rate",
                                                              !.rate = commonBaudRates[i],
                                                              !.reply = r.text]], t)
            ELSE detectBaudRate(s, t, i + 1)
      [] OTHER ->   \* checkDeviceHealth: health 'good', or 'unresponsive' in its catch
            Finish(s, t, IF r.ok THEN Returned(r.text)
                         ELSE [res |-> "return", label |-> NoLabel, err |-> "unresponsive"])

\* detectBaudRate from rate i on, up to `await this.port.close()`.  close()
\* rejects at once on a port that is not opened or has a locked stream.
detectBaudRate(s, t, i) ==
    IF i > Len(commonBaudRates)
    THEN behavioralGuess([s EXCEPT !.baud.res = "null"], t)
    ELSE IF \/ s.port = NoPort
            \/ s.popen[s.port] # "opened"
            \/ s.rlock[s.port] # "free" \/ s.wlock[s.port]
    THEN detectBaudRate(s, t, i + 1)
    ELSE [s EXCEPT !.popen[s.port] = "closing",
                   !.pc[t] = "bclose", !.k[t] = i, !.tport[t] = s.port]

\* detectBaudRate after close() resolved: openPort(baudRate), lines 87-98;
\* open() rejects at once on a port that is not closed
AfterBaudClose(s, t) ==
    LET s1 == [ClosePort(s, s.tport[t]) EXCEPT
                  !.baud.closed = Append(@, commonBaudRates[s.k[t]])] IN
    IF s1.port = NoPort \/ s1.popen[s1.port] # "closed"
    THEN detectBaudRate(s1, t, s.k[t] + 1)
    ELSE [s1 EXCEPT !.popen[s1.port] = "opening", !.pc[t] = "bopen", !.tport[t] = s1.port]

\* A faulty identifyModel: the command/response probe runs first
identifyModelProbesFirst(s, t) ==
    IF s.port = NoPort
    THEN AfterIdentify(s, t, Thrown("PortNotOpen"), "guard")
    ELSE identifyByCommandResponse(s, t, 1)

\* identifyModel, lines 104-135
identifyModel(s, t) ==
    IF s.port = NoPort
    THEN AfterIdentify(s, t, Thrown("PortNotOpen"), "guard")
    ELSE IF identifyByUSBInfo(s.info[s.port]) # NoLabel
    THEN AfterIdentify(s, t, Returned(identifyByUSBInfo(s.info[s.port])), "descriptor")
    ELSE identifyByCommandResponse(s, t, 1)


(***************************************************************************)
(* Upload.                                                                 *)
(***************************************************************************)
\* sendCodeChunked: iteration i of the loop up to `await this.writer.write`,
\* or the end of the loop; `finally { this.writer.releaseLock() }` throws a
\* TypeError when this.writer is null.  write() on a released writer rejects.
UploadNext(s, i) ==
    IF s.writer = NoPort
    THEN Finish(s, "up", Thrown("TypeError"))
    ELSE IF i > Len(s.upChunks)
    THEN Finish([s EXCEPT !.wlock[s.writer] = FALSE], "up", Returned(NoLabel))
    ELSE IF ~s.wlock[s.writer]
    THEN Finish(s, "up", Thrown("TypeError"))
    ELSE [s EXCEPT !.pc["up"] = "upWrite", !.k["up"] = i, !.tport["up"] = s.writer]

\* sendCodeChunked up to the first write, lines 444-452; getWriter() is
\* outside the try, so its TypeError skips the finally
sendCodeChunked(s, fullCode) ==
    LET s1 == [s EXCEPT !.upChunks = chunkString(fullCode, ChunkSize), !.wire = <<>>] IN
    IF s.port = NoPort \/ s.popen[s.port] # "opened" \/ s.wlock[s.port]
    THEN Finish(s1, "up", Thrown("TypeError"))
    ELSE UploadNext([s1 EXCEPT !.writer = s.port, !.wlock[s.port] = TRUE,
                               !.pc["up"] = "upWrite"], 1)

\* A faulty uploadCode: the isConnected guard is missing
uploadCodeUnguarded(s0, code, options) ==
    LET s == [s0 EXCEPT !.upIn = [code |-> code, options |-> options]]
        fullCode == wrapCodeForUpload(code, options)
    IN IF fullCode.res = "throw"
       THEN Finish(s, "up", Thrown("TypeError"))
       ELSE sendCodeChunked(s, fullCode.text)

\* uploadCode, lines 400-421
uploadCode(s0, code, options) ==
    LET s == [s0 EXCEPT !.upIn = [code |-> code, options |-> options]]
        fullCode == wrapCodeForUpload(code, options)
    IN IF ~s.isConnected
       THEN Finish(s, "up", Thrown("NotConnected"))
       ELSE IF fullCode.res = "throw"
       THEN Finish(s, "up", Thrown("TypeError"))
       ELSE sendCodeChunked(s, fullCode.text)

\* sendCodeChunked after a write rejected: the finally, then the rethrow
UploadWriteFailed(s) ==
    IF s.writer = NoPort
    THEN Finish(s, "up", Thrown("TypeError"))
    ELSE Finish([s EXCEPT !.wlock[s.writer] = FALSE], "up", Thrown("Network"))

(***************************************************************************)
(* Disconnect.                                                             *)
(***************************************************************************)
\* disconnect after `await this.port.close()`, lines 489-495
AfterDisconnectClose(s) ==
    Finish(Mark(notifyDisconnection([s EXCEPT !.port = NoPort, !.isConnected = FALSE]),
                "returned"),
           "disc", Returned(NoLabel))

\* disconnect up to `await this.port.close()`, lines 475-488
disconnect(s0) ==
    LET s  == Mark(s0, "called")
        s1 == IF s.reader # NoPort
              THEN [ReleaseReader(s, s.reader, "readDone") EXCEPT !.reader = NoPort]
              ELSE s
        s2 == IF s1.writer # NoPort
              THEN [s1 EXCEPT !.wlock[s1.writer] = FALSE, !.writer = NoPort]
              ELSE s1
    IN IF s2.port = NoPort
       THEN AfterDisconnectClose(s2)
       ELSE IF s2.popen[s2.port] # "opened"
       THEN Finish(s2, "disc", Thrown("InvalidState"))
       ELSE IF s2.rlock[s2.port] # "free" \/ s2.wlock[s2.port]
       THEN Finish(s2, "disc", Thrown("TypeError"))
       ELSE [s2 EXCEPT !.popen[s2.port] = "closing",
                       !.pc["disc"] = "discClose", !.tport["disc"] = s2.port]

(***************************************************************************)
(* Detection and the poll tick.                                            *)
(***************************************************************************)
\* getArduinoFilters: the vendors requestPort offers
FilterVendors == {9025, 10755, 6991, 6790, 4292, 1027}

\* detectArduino up to `await navigator.serial.requestPort`, lines 41-51
detectArduino(s, t) ==
    IF ~s.supported
    THEN (IF s.op[t] = "tick" THEN EndTick(s, t, Thrown("NotSupported"))
          ELSE Finish(s, t, Thrown("NotSupported")))
    ELSE [s EXCEPT !.pc[t] = "reqPort"]

\* detectArduino after requestPort resolved with p: openPort, lines 87-98
AfterRequestPort(s, t, p) ==
    LET s1 == [s EXCEPT !.port = p, !.granted = @ \cup {p}] IN
    IF s1.popen[p] # "closed"
    THEN EndDetect(s1, t, Thrown("InvalidState"))
    ELSE [s1 EXCEPT !.popen[p] = "opening", !.pc[t] = "open", !.tport[t] = p]

\* The device records scanForDevices builds from the granted ports, lines 332-341
scannedDevices(s) ==
    { [id |-> <<s.info[p].usbVendorId, s.info[p].usbProductId>>,
       model |-> quickIdentifyPort(s.info[p])] :
      p \in {q \in s.granted : quickIdentifyPort(s.info[q]) # NoLabel} }

\* A faulty scanForDevices: isScanning is reset on the normal return only
scanForDevicesEndNoFinally(s, ok) ==
    IF ok THEN [s EXCEPT !.detectedDevices = scannedDevices(s), !.isScanning = FALSE]
    ELSE s

\* scanForDevices from the settling of getPorts to its end, lines 327-353:
\* ok when getPorts resolved; `finally` runs on both paths
scanForDevicesEnd(s, ok) ==
    IF ok THEN [s EXCEPT !.detectedDevices = scannedDevices(s), !.isScanning = FALSE]
    ELSE [s EXCEPT !.isScanning = FALSE]

\* scanForDevices up to `await getPorts()`, lines 319-328
scanForDevices(s, t) ==
    IF ~s.supported
    THEN Finish(s, t, Thrown("NotSupported"))
    ELSE [s EXCEPT !.isScanning = TRUE, !.pc[t] = "getPorts"]

\* scanForDevices called by the page, after getPorts settled
AfterScan(s, t, ok) ==
    Finish(scanForDevicesEnd(s, ok), t,
           IF ok THEN Returned(NoLabel) ELSE Thrown("GetPortsFailed"))

\* scanForDevices after getPorts resolved, lines 329-353, then attemptReconnect
AfterGetPorts(s, t) ==
    LET s1 == scanForDevicesEnd(s, TRUE)
    IN IF s1.detectedDevices = {} THEN EndTick(s1, t, Returned(NoLabel))
       ELSE detectArduino(s1, t)

\* checkConnectionStatus up to `await getPorts()`, lines 596-603 and 319-328
checkConnectionStatus(s, t) ==
    IF s.isConnected
    THEN Finish(notifyStatus(s, "status", TRUE), t, Returned(NoLabel))
    ELSE IF ~s.supported
    THEN EndTick(s, t, Thrown("NotSupported"))
    ELSE [s EXCEPT !.isScanning = TRUE, !.pc[t] = "getPorts"]

\* checkDeviceHealth, lines 673-697
checkDeviceHealth(s, t) ==
    IF ~s.isConnected
    THEN Finish(s, t, [res |-> "return", label |-> NoLabel, err |-> "disconnected"])
    ELSE sendCommand(s, t, "health", 0)

\* getDeviceInfo, lines 379-385
getDeviceInfo(s, t) ==
    IF ~s.isConnected \/ s.port = NoPort
    THEN Finish(s, t, Thrown("NoDevice"))
    ELSE identifyModel(s, t)

\* getDeviceCapabilities, lines 712-717
getDeviceCapabilities(s, t) ==
    IF ~s.isConnected
    THEN Finish(s, t, Returned(NoLabel))
    ELSE identifyModel(s, t)


(***************************************************************************)
(* Inputs.                                                                 *)
(***************************************************************************)
FragBlink ==
    <<"b","l","i","n","k","(",")",";">>

FragInclude ==
    <<"#","i","n","c","l","u","d","e"," ","<","S","e","r","v","o",".","h",">">>

FragPad ==
    <<"x"," ","="," ","1",";"," "," ">>

FragVoid ==
    <<"v","o","i","d"," ">>

Fragments == {MarkerSetup, MarkerLoop, FragBlink, FragPad, FragVoid}

MaxFrags == 3

\* Source texts: up to MaxFrags fragments, one after the other
Sources == { Concat(fs) : fs \in UNION { [1..n -> Fragments] : n \in 0..MaxFrags } }

OptionValues ==
    { NullOptions, EmptyOptions,
      [isNull |-> FALSE, libraries |-> StringValue(<<>>)],
      [isNull |-> FALSE, libraries |-> StringValue(FragInclude)] }

UploadInputs == { [code |-> c, options |-> o] : c \in Sources, o \in OptionValues }

\* The uploads of a session: a bare statement (two chunks once wrapped) and a
\* complete sketch (one chunk)
SessionInputs ==
    { [code |-> FragBlink, options |-> EmptyOptions],
      [code |-> MarkerSetup \o MarkerLoop, options |-> EmptyOptions] }

(***************************************************************************)
(* Actions: a call, or the settling of what a task awaits.                 *)
(***************************************************************************)
\* A continuation that is already queued runs before any other event
MicroPcs == {"readDone", "readAborted"}

MicroReady == \E t \in Tasks : pc[t] \in MicroPcs

\* The record of the upload in flight has room for n more entries
WireRoom(n) == pc["up"] = "idle" \/ Len(wire) + n <= MaxWire

\* The operations one behaviour starts
MaxCalls == 3

Idle(t) == pc[t] = "idle" /\ ~MicroReady /\ calls < budget

\* A call opens a new observation window: the outcomes and dispatches on
\* record are those since the latest call began
Begin(t, o) ==
    [St EXCEPT !.op[t] = o, !.calls = @ + 1, !.lastCall = t,
               !.ident = NoIdent, !.baud = NoBaud,
               !.upIn = IF pc["up"] = "idle" THEN NoInput ELSE @,
               !.out = [u \in Tasks |-> NoOutcome],
               !.lastNote = NoNote, !.lastStatus = NoStatus,
               !.wire = IF pc["up"] = "idle" THEN <<>> ELSE @,
               !.upChunks = IF pc["up"] = "idle" THEN <<>> ELSE @]

CallDetectArduino ==
    /\ Idle("user")
    /\ Commit(detectArduino(Begin("user", "detect"), "user"))

CallGetDeviceInfo ==
    /\ Idle("user")
    /\ Commit(getDeviceInfo(Begin("user", "info"), "user"))

CallGetDeviceCapabilities ==
    /\ Idle("user")
    /\ Commit(getDeviceCapabilities(Begin("user", "caps"), "user"))

CallUploadCode ==
    /\ Idle("up")
    /\ \E in \in inputs : Commit(uploadCode(Begin("up", "upload"), in.code, in.options))

CallDisconnect ==
    /\ Idle("disc")
    /\ WireRoom(2)
    /\ Commit(disconnect([Begin("disc", "disconnect") EXCEPT
                              !.ctx["disc"] = IF isConnected THEN "connected"
                                              ELSE "disconnected"]))

CallCheckDeviceHealth ==
    /\ Idle("health")
    /\ Commit(checkDeviceHealth(Begin("health", "health"), "health"))

CallStartMonitoring ==
    /\ ~MicroReady /\ calls < budget
    /\ Commit(startMonitoring([St EXCEPT !.calls = @ + 1, !.lastCall = "monitor"]))

CallStopMonitoring ==
    /\ ~MicroReady /\ calls < budget
    /\ Commit(stopMonitoring([St EXCEPT !.calls = @ + 1, !.lastCall = "monitor"]))

\* The interval timer fires, or the page becomes visible again
PollTick ==
    /\ Idle("poll")
    /\ Commit(checkConnectionStatus(Begin("poll", "tick"), "poll"))

GetPortsSettle ==
    /\ ~MicroReady
    /\ pc["poll"] = "getPorts"
    /\ Commit(AfterGetPorts(St, "poll"))

\* The page's scan button, app.js scanForArduinoDevices
CallScanForDevices ==
    /\ Idle("user")
    /\ Commit(scanForDevices(Begin("user", "scan"), "user"))

ScanGetPortsResolve ==
    /\ ~MicroReady
    /\ pc["user"] = "getPorts"
    /\ Commit(AfterScan(St, "user", TRUE))

ScanGetPortsReject ==
    /\ ~MicroReady
    /\ pc["user"] = "getPorts"
    /\ Commit(AfterScan(St, "user", FALSE))

RequestPortResolve(t) ==
    /\ ~MicroReady
    /\ pc[t] = "reqPort"
    /\ \E p \in Ports :
          /\ info[p].usbVendorId \in FilterVendors
          /\ Commit(AfterRequestPort(St, t, p))

\* The user dismisses the chooser, or the call had no user gesture
RequestPortReject(t) ==
    /\ ~MicroReady
    /\ pc[t] = "reqPort"
    /\ Commit(EndDetect(St, t, Thrown("NotFound")))

OpenResolve(t) ==
    /\ ~MicroReady
    /\ pc[t] \in {"open", "bopen"}
    /\ LET s1 == [St EXCEPT !.popen[tport[t]] = "opened"] IN
       Commit(IF pc[t] = "open" THEN identifyModel(s1, t)
              ELSE sendCommand(s1, t, "baud", k[t]))

OpenReject(t) ==
    /\ ~MicroReady
    /\ pc[t] \in {"open", "bopen"}
    /\ LET s1 == [St EXCEPT !.popen[tport[t]] = "closed"] IN
       Commit(IF pc[t] = "open" THEN EndDetect(s1, t, Thrown("Network"))
              ELSE detectBaudRate(s1, t, k[t] + 1))

\* close() aborts the writable stream before it closes the port: a write
\* still pending on the port settles before close() resolves
CloseResolve(t) ==
    /\ ~MicroReady
    /\ pc[t] \in {"bclose", "discClose"}
    /\ \A u \in Tasks : ~(pc[u] \in {"write", "upWrite"} /\ tport[u] = tport[t])
    /\ Commit(IF pc[t] = "bclose" THEN AfterBaudClose(St, t)
              ELSE AfterDisconnectClose(ClosePort(St, tport[t])))

CommandOf(c, i) == IF c = "cr" THEN commands[i].command
                   ELSE IF c = "health" THEN CmdAT ELSE CmdLine

WriteResolve(t) ==
    /\ ~MicroReady
    /\ pc[t] = "write"
    /\ popen[tport[t]] \in {"opened", "closing"}
    /\ WireRoom(1)
    /\ Commit(AfterWrite(Log(St, t, tport[t], CommandOf(ctx[t], k[t])), t))

WriteReject(t) ==
    /\ ~MicroReady
    /\ pc[t] = "write"
    /\ Commit(AfterCommand(St, t, ctx[t], k[t], Rejected("Network")))

\* readResponse once its read settled with r, through its finally
AfterRead(s, t, r) ==
    LET f == FinallyReleaseReader(s, t, s.tport[t]) IN
    AfterCommand(f.st, t, s.ctx[t], s.k[t], IF f.threw THEN Rejected("TypeError") ELSE r)

\* The device answers with a line
ReadResolve(t) ==
    /\ ~MicroReady
    /\ pc[t] = "read"
    /\ popen[tport[t]] = "opened"
    /\ \E reply \in Replies : Commit(AfterRead(St, t, Resolved(Trim(reply))))

ReadReject(t) ==
    /\ ~MicroReady
    /\ pc[t] = "read"
    /\ Commit(AfterRead(St, t, Rejected("Network")))

\* The timer of sendCommand rejects; readResponse stays behind with its read
\* pending and its lock held
CommandTimeout(t) ==
    /\ ~MicroReady
    /\ pc[t] = "read"
    /\ Commit(AfterCommand(St, t, ctx[t], k[t], Rejected("Timeout")))

\* A read that cancel() ended (done) or that a releaseLock() rejected
ReadEnded(t) ==
    /\ pc[t] \in {"readDone", "readAborted"}
    /\ Commit(AfterRead(St, t, IF pc[t] = "readDone" THEN Resolved(<<>>)
                               ELSE Rejected("TypeError")))

\* A readResponse left behind by a timeout gets its line (or an error) at last
OrphanReadSettle(p) ==
    /\ ~MicroReady
    /\ rlock[p] = "read"
    /\ popen[p] = "opened"
    /\ \A t \in Tasks : ~(pc[t] = "read" /\ tport[t] = p)
    /\ Commit(FinallyReleaseReader(St, "orphan", p).st)

UploadWriteResolve ==
    /\ ~MicroReady
    /\ pc["up"] = "upWrite"
    /\ popen[tport["up"]] \in {"opened", "closing"}
    /\ WireRoom(1)
    /\ Commit([Log(St, "up", tport["up"], upChunks[k["up"]]) EXCEPT !.pc["up"] = "upDelay"])

UploadWriteReject ==
    /\ ~MicroReady
    /\ pc["up"] = "upWrite"
    /\ Commit(UploadWriteFailed(St))

\* delay(10) elapses
UploadDelayElapsed ==
    /\ ~MicroReady
    /\ pc["up"] = "upDelay"
    /\ Commit(UploadNext(St, k["up"] + 1))

\* A direct call of wrapCodeForUpload
CallWrap ==
    /\ wrapped.n = 0
    /\ \E in \in inputs :
          LET w == wrapCodeForUpload(in.code, in.options) IN
          Commit([St EXCEPT !.wrapped = [n |-> 1, source |-> in.code, code |-> in.code,
                                         options |-> in.options,
                                         res |-> w.res, text |-> w.text]])

\* wrapCodeForUpload on what the last call returned, with the same options
WrapAgain ==
    /\ wrapped.n = 1 /\ wrapped.res = "return"
    /\ LET w == wrapCodeForUpload(wrapped.text, wrapped.options) IN
       Commit([St EXCEPT !.wrapped = [@ EXCEPT !.n = 2, !.code = wrapped.text,
                                                !.res = w.res, !.text = w.text]])

Detectors == {"user", "poll"}

Commanders == {"user", "poll", "health"}

Next ==
    \/ CallDetectArduino
    \/ CallGetDeviceInfo
    \/ CallGetDeviceCapabilities
    \/ CallUploadCode
    \/ CallDisconnect
    \/ CallCheckDeviceHealth
    \/ CallStartMonitoring
    \/ CallStopMonitoring
    \/ PollTick
    \/ GetPortsSettle
    \/ \E t \in Detectors : RequestPortResolve(t)
    \/ \E t \in Detectors : RequestPortReject(t)
    \/ \E t \in Detectors : OpenResolve(t)
    \/ \E t \in Detectors : OpenReject(t)
    \/ \E t \in Tasks : CloseResolve(t)
    \/ \E t \in Commanders : WriteResolve(t)
    \/ \E t \in Commanders : WriteReject(t)
    \/ \E t \in Commanders : ReadResolve(t)
    \/ \E t \in Commanders : ReadReject(t)
    \/ \E t \in Commanders : CommandTimeout(t)
    \/ \E t \in Commanders : ReadEnded(t)
    \/ \E p \in Ports : OrphanReadSettle(p)
    \/ UploadWriteResolve
    \/ UploadWriteReject
    \/ UploadDelayElapsed

\* The detector and its monitor after construction, lines 2-11 and 548-555;
\* ins are the texts callers will upload, b the operations they may start
ConstructedOn(ps, ins, b) ==
    /\ supported \in BOOLEAN
    /\ info \in ps
    /\ granted = {}
    /\ inputs = ins
    /\ port = NoPort /\ reader = NoPort /\ writer = NoPort
    /\ isConnected = FALSE /\ isScanning = FALSE /\ detectedDevices = {}
    /\ isMonitoring = FALSE /\ monitorInterval = FALSE /\ timers = 0
    /\ popen = [p \in Ports |-> "closed"]
    /\ rlock = [p \in Ports |-> "free"]
    /\ wlock = [p \in Ports |-> FALSE]
    /\ pc = [t \in Tasks |-> "idle"]
    /\ op = [t \in Tasks |-> "none"]
    /\ ctx = [t \in Tasks |-> "none"]
    /\ k = [t \in Tasks |-> 0]
    /\ tport = [t \in Tasks |-> NoPort]
    /\ out = [t \in Tasks |-> NoOutcome]
    /\ upChunks = <<>> /\ wire = <<>>
    /\ lastNote = NoNote /\ lastStatus = NoStatus
    /\ ident = NoIdent /\ baud = NoBaud /\ upIn = NoInput /\ wrapped = NoWrap
    /\ lastCall = "none"
    /\ calls = 0 /\ budget = b

Constructed(ins, b) == ConstructedOn(SessionPorts, ins, b)

Init == Constructed(SessionInputs, MaxCalls)

Spec == Init /\ [][Next]_vars

(***************************************************************************)
(* A session that starts connected: detectArduino has just returned "uno"  *)
(* for port 2, whose descriptor is in the signature table.                 *)
(***************************************************************************)
Connected(ins, b) ==
    /\ supported = TRUE
    /\ info \in SessionPorts
    /\ granted = {2}
    /\ inputs = ins
    /\ port = 2 /\ reader = NoPort /\ writer = NoPort
    /\ isConnected = TRUE /\ isScanning = FALSE /\ detectedDevices = {}
    /\ isMonitoring = TRUE /\ monitorInterval = TRUE /\ timers = 1
    /\ popen = [p \in Ports |-> IF p = 2 THEN "opened" ELSE "closed"]
    /\ rlock = [p \in Ports |-> "free"]
    /\ wlock = [p \in Ports |-> FALSE]
    /\ pc = [t \in Tasks |-> "idle"]
    /\ op = [t \in Tasks |-> IF t = "user" THEN "detect" ELSE "none"]
    /\ ctx = [t \in Tasks |-> "none"]
    /\ k = [t \in Tasks |-> 0]
    /\ tport = [t \in Tasks |-> NoPort]
    /\ out = [t \in Tasks |-> IF t = "user"
                               THEN [op |-> "detect", res |-> "return",
                                     label |-> LabelUno, err |-> ""]
                               ELSE NoOutcome]
    /\ upChunks = <<>> /\ wire = <<>>
    /\ lastNote = [event |-> "connection", model |-> LabelUno,
                   to |-> connectionCallbacks, connected |-> TRUE, port |-> 2]
    /\ lastStatus = [event |-> "connected", connected |-> TRUE,
                     to |-> statusCallbacks, at |-> TRUE]
    /\ ident = [res |-> "return", label |-> LabelUno, err |-> "", by |-> "descriptor",
                vendor |-> 9025]
    /\ baud = NoBaud /\ upIn = NoInput /\ wrapped = NoWrap
    /\ lastCall = "user"
    /\ calls = 1 /\ budget = b

InitConnected == Connected(SessionInputs, 1 + MaxCalls)

\* The caller uploads, disconnects and detects again; no poll, no health check
NextCaller ==
    \/ CallDetectArduino
    \/ CallUploadCode
    \/ CallDisconnect
    \/ RequestPortResolve("user")
    \/ RequestPortReject("user")
    \/ OpenResolve("user")
    \/ OpenReject("user")
    \/ \E t \in {"user", "disc"} : CloseResolve(t)
    \/ WriteResolve("user")
    \/ WriteReject("user")
    \/ ReadResolve("user")
    \/ ReadReject("user")
    \/ CommandTimeout("user")
    \/ ReadEnded("user")
    \/ \E p \in Ports : OrphanReadSettle(p)
    \/ UploadWriteResolve
    \/ UploadWriteReject
    \/ UploadDelayElapsed

SpecConnected == InitConnected /\ [][NextCaller]_vars

(***************************************************************************)
(* One upload on a connected session: every source text and options value.*)
(***************************************************************************)
InitUpload == Connected(UploadInputs, 2)

NextUpload ==
    \/ CallUploadCode
    \/ UploadWriteResolve
    \/ UploadWriteReject
    \/ UploadDelayElapsed

SpecUpload == InitUpload /\ [][NextUpload]_vars

(***************************************************************************)
(* The monitor on a connected session: the interval timer keeps firing,    *)
(* and the health check is run again and again.                            *)
(***************************************************************************)
\* The times monitoring is stopped or started by hand in one behaviour
MaxSwitches == 2

InitMonitor == Connected(SessionInputs, 1 + MaxSwitches)

\* setInterval fires checkConnectionStatus for as long as the timer is set
IntervalTick ==
    /\ monitorInterval
    /\ pc["poll"] = "idle" /\ ~MicroReady
    /\ Commit(checkConnectionStatus([Begin("poll", "tick") EXCEPT !.calls = calls], "poll"))

\* checkDeviceHealth, whenever the previous check has ended
RunCheckDeviceHealth ==
    /\ pc["health"] = "idle" /\ ~MicroReady
    /\ Commit(checkDeviceHealth([Begin("health", "health") EXCEPT !.calls = calls],
                                "health"))

NextMonitor ==
    \/ IntervalTick
    \/ RunCheckDeviceHealth
    \/ CallStartMonitoring
    \/ CallStopMonitoring
    \/ WriteResolve("health")
    \/ WriteReject("health")
    \/ ReadResolve("health")
    \/ ReadReject("health")
    \/ CommandTimeout("health")
    \/ \E p \in Ports : OrphanReadSettle(p)

SpecMonitor == InitMonitor /\ [][NextMonitor]_vars /\ WF_vars(NextMonitor)

(***************************************************************************)
(* Detection on boards of every vendor the fallback tells apart, none of   *)
(* them in the signature table, with disconnect() calls in between.        *)
(***************************************************************************)
\* Port 1 is a board identifyByUSBInfo does not match: an Arduino that
\* reports no product id, a CH340 clone, a CP2105 bridge, an FTDI adapter;
\* port 2 is an Arduino Uno
LadderPorts ==
    { f \in [Ports -> Descriptors \cup {[usbVendorId |-> 4292, usbProductId |-> 60016]}] :
        /\ identifyByUSBInfo(f[1]) = NoLabel
        /\ f[2].usbProductId = 67 }

InitLadder == ConstructedOn(LadderPorts, SessionInputs, MaxCalls)

NextLadder ==
    \/ CallDetectArduino
    \/ CallDisconnect
    \/ RequestPortResolve("user")
    \/ RequestPortReject("user")
    \/ OpenResolve("user")
    \/ OpenReject("user")
    \/ \E t \in {"user", "disc"} : CloseResolve(t)
    \/ WriteResolve("user")
    \/ WriteReject("user")
    \/ ReadResolve("user")
    \/ ReadReject("user")
    \/ CommandTimeout("user")
    \/ ReadEnded("user")
    \/ \E p \in Ports : OrphanReadSettle(p)

SpecLadder == InitLadder /\ [][NextLadder]_vars

\* The same, with what the code and the runtime guarantee: the timer of
\* sendCommand fires, and a continuation that is queued runs.  Whether a
\* write, a read, an open() or a close() of the port ever settles is up to
\* the port and the device.
SpecProbe ==
    /\ InitLadder /\ [][NextLadder]_vars
    /\ WF_vars(CommandTimeout("user")) /\ WF_vars(ReadEnded("user"))

(***************************************************************************)
(* The envelope on its own: every source text and options value.           *)
(***************************************************************************)
InitWrap == Constructed(UploadInputs, 0)

NextWrap == CallWrap \/ WrapAgain

SpecWrap == InitWrap /\ [][NextWrap]_vars

(***************************************************************************)
(* C1: identifyModel never raises and defaults to "generic".               *)
(***************************************************************************)
\* The vendors fallbackIdentification knows
FallbackVendors == {9025, 6790, 4292}

Labels ==
    {LabelUno, LabelNano, LabelEsp32, LabelMega, LabelMega2560, LabelLeonardo,
     LabelGeneric, LabelUnknown}

C1_WitnessUnknown == ident.by = "catch"

C1_WitnessGuard == ident.by = "guard"

(***************************************************************************)
(* C2: uploadCode while disconnected.                                      *)
(***************************************************************************)
\* The step is a call of uploadCode
UploadCalled == pc["up"] = "idle" /\ calls' = calls + 1 /\ lastCall' = "up"

\* C2: a call of uploadCode while isConnected is false ends within the call
\* by throwing the not-connected error; it writes nothing, takes no writer
\* lock, and leaves the detector, the monitor and the ports as they were.
C2_UploadWhileDisconnected ==
    [][UploadCalled /\ ~isConnected =>
          /\ pc'["up"] = "idle"
          /\ out'["up"] = [op |-> "upload", res |-> "throw", label |-> NoLabel,
                           err |-> "NotConnected"]
          /\ wire' = <<>> /\ upChunks' = <<>>
          /\ wlock' = wlock /\ writer' = writer
          /\ rlock' = rlock /\ reader' = reader
          /\ port' = port /\ popen' = popen /\ isConnected' = isConnected
          /\ isMonitoring' = isMonitoring /\ monitorInterval' = monitorInterval
          /\ detectedDevices' = detectedDevices /\ isScanning' = isScanning]_vars

\* An upload refused while a detection holds a port open
C2_Witness ==
    /\ out["up"].op = "upload" /\ out["up"].err = "NotConnected"
    /\ ~isConnected /\ port # NoPort /\ popen[port] = "opened"

(***************************************************************************)
(* C5: disconnect() in every state.                                        *)
(***************************************************************************)
\* disconnect() was the latest call, and it and everything that was in
\* flight when it was called have completed
DisconnectSettled ==
    /\ lastCall = "disc" /\ out["disc"].op = "disconnect"
    /\ \A t \in Tasks : pc[t] = "idle"

\* C5: once disconnect() and every operation in flight at its call have
\* completed, isConnected is false, this.port is null, every port is closed
\* and no reader or writer lock is held.
C5_DisconnectSafe ==
    DisconnectSettled =>
        /\ ~isConnected /\ port = NoPort
        /\ \A p \in Ports : popen[p] = "closed" /\ rlock[p] = "free" /\ ~wlock[p]

(***************************************************************************)
(* C6: explicit disconnect() in the connected state.                       *)
(***************************************************************************)
\* The step completes a disconnect() that was called while isConnected
DisconnectFromConnectedEnds ==
    /\ pc'["disc"] = "idle"
    /\ \/ pc["disc"] = "idle" /\ isConnected /\ calls' = calls + 1 /\ lastCall' = "disc"
       \/ pc["disc"] = "discClose" /\ ctx["disc"] = "connected"

\* C6: a disconnect() called while isConnected ends with isConnected false
\* and this.port null, having invoked every onDisconnection callback once,
\* after both, and the monitor has delivered 'disconnected' to every
\* onStatusChange observer.
C6_ExplicitDisconnect ==
    [][DisconnectFromConnectedEnds =>
          /\ ~isConnected' /\ port' = NoPort
          /\ out'["disc"].res = "return"
          /\ lastNote' = [event |-> "disconnection", model |-> NoLabel,
                          to |-> disconnectionCallbacks,
                          connected |-> FALSE, port |-> NoPort]
          /\ lastStatus' = [event |-> "disconnected", connected |-> FALSE,
                            to |-> statusCallbacks, at |-> FALSE]]_vars

(***************************************************************************)
(* C8: the two ends of detectArduino.                                      *)
(***************************************************************************)
\* The step completes a detectArduino() of the caller
DetectEnds ==
    /\ pc'["user"] = "idle" /\ op'["user"] = "detect"
    /\ \/ pc["user"] # "idle"
       \/ calls' = calls + 1 /\ lastCall' = "user"

DetectErrors == {"NotSupported", "NotFound", "Network", "InvalidState", "PortNotOpen"}

\* C8: detectArduino ends either by returning the model, with isConnected
\* true and the model handed once to every onConnection observer after
\* isConnected became true, or by rethrowing the error that stopped it, with
\* isConnected false, no observer notified, and nothing left running.  An
\* error of identifyModel raised in the step is the error the caller gets.
C8_DetectTwoEnds ==
    [][DetectEnds =>
          \/ /\ out'["user"].res = "return"
             /\ out'["user"].label \in Labels
             /\ isConnected'
             /\ lastNote'.event = "connection"
             /\ lastNote'.model = out'["user"].label
             /\ lastNote'.to = connectionCallbacks
             /\ lastNote'.connected
             /\ ident'.res = "return" /\ ident'.label = out'["user"].label
          \/ /\ out'["user"].res = "throw"
             /\ out'["user"].err \in DetectErrors
             /\ (ident' # ident /\ ident'.res = "throw") => out'["user"].err = ident'.err
             /\ out'["user"].err = "PortNotOpen" => ident'.res = "throw"
             /\ ~isConnected'
             /\ lastNote' \in {lastNote, NoNote}
             /\ lastStatus' \in {lastStatus, NoStatus}
             /\ ctx'["user"] = "none"]_vars

C8_WitnessSuccess ==
    /\ out["user"].op = "detect" /\ out["user"].res = "return"
    /\ lastNote.event = "connection" /\ isConnected

C8_WitnessError ==
    /\ out["user"].op = "detect" /\ out["user"].res = "throw"
    /\ out["user"].err = "Network" /\ port # NoPort

(***************************************************************************)
(* C9: a throwing observer.                                                *)
(***************************************************************************)
\* C9: every notification reaches every registered observer, the throwing
\* ones and those after them, and the operation that fired it ends as it
\* would have without the throw.
C9_ThrowingObserver ==
    [][/\ (lastNote' # lastNote /\ lastNote'.event = "connection") =>
              /\ lastNote'.to = connectionCallbacks
              /\ \E t \in Detectors : pc[t] # "idle" /\ pc'[t] = "idle"
                                      /\ out'[t].res = "return"
       /\ (lastNote' # lastNote /\ lastNote'.event = "disconnection") =>
              /\ lastNote'.to = disconnectionCallbacks
              /\ pc'["disc"] = "idle" /\ out'["disc"].res = "return"
       /\ (lastStatus' # lastStatus /\ lastStatus'.event # "none") =>
              /\ lastStatus'.to = statusCallbacks
              /\ lastStatus'.event = "status" =>
                    pc'["poll"] = "idle" /\ out'["poll"].res = "return"]_vars

\* All three kinds of notification went past a throwing observer
C9_Witness ==
    /\ lastNote.event = "disconnection" /\ lastNote.to = <<"monitor", "appThrows", "app">>
    /\ lastStatus.event = "disconnected" /\ lastStatus.to = <<"uiThrows", "ui">>
    /\ out["disc"].res = "return"

C9_WitnessConnection ==
    /\ lastNote.event = "connection" /\ lastNote.to = <<"monitor", "appThrows", "app">>
    /\ lastStatus.event = "connected" /\ lastStatus.to = <<"uiThrows", "ui">>

(***************************************************************************)
(* C4: disconnect() during an upload.                                      *)
(***************************************************************************)
\* The upload in flight (or just ended) saw disconnect() called
DisconnectCalledInUpload == \E i \in 1..Len(wire) : wire[i].ev = "called"

\* C4: when disconnect() is called during an upload, the upload ends by
\* throwing, and no chunk of the upload is written, to any port, after that
\* disconnect() has returned.
C4_DisconnectStopsUpload ==
    /\ (DisconnectCalledInUpload /\ pc["up"] = "idle" /\ out["up"].op = "upload")
          => out["up"].res = "throw"
    /\ \A i, j \in 1..Len(wire) :
          (i < j /\ wire[i].ev = "returned") => ~(wire[j].ev = "write" /\ wire[j].by = "up")

(***************************************************************************)
(* C7: a failed liveness check.                                            *)
(***************************************************************************)
\* The health check found the device unresponsive on a connected, monitored
\* session
LivenessCheckFailed ==
    isConnected /\ isMonitoring /\ out["health"].err = "unresponsive"

\* C7: after a liveness check failed on a connected, monitored session, the
\* session eventually is disconnected and the observers have been told.
C7_FailedCheckDisconnects ==
    LivenessCheckFailed ~> (~isConnected /\ lastNote.event = "disconnection")

(***************************************************************************)
(* C3: what an upload writes.                                              *)
(***************************************************************************)
\* The chunks the upload has written so far, in the order written
RECURSIVE DataOf(_)
DataOf(entries) ==
    IF entries = <<>> THEN <<>> ELSE <<Head(entries).data>> \o DataOf(Tail(entries))

IsUploadWrite(e) == e.ev = "write" /\ e.by = "up"

UploadWritten == DataOf(SelectSeq(wire, IsUploadWrite))

UploadSucceeded ==
    pc["up"] = "idle" /\ out["up"].op = "upload" /\ out["up"].res = "return"

\* C3: the chunks a successful uploadCode wrote, one after the other, are
\* wrapCodeForUpload(source, options); each is 1..64 units long and all but
\* the last are 64 units long; while the upload runs, what it has written is
\* the beginning of that text, in whole chunks, with one write pending at most.
C3_ChunksReconstruct ==
    LET full == wrapCodeForUpload(upIn.code, upIn.options)
        sent == UploadWritten
    IN /\ UploadSucceeded =>
             /\ full.res = "return" /\ Concat(sent) = full.text
             /\ \A i \in 1..Len(sent) :
                   /\ Len(sent[i]) >= 1 /\ Len(sent[i]) <= 64
                   /\ i < Len(sent) => Len(sent[i]) = 64
       /\ pc["up"] # "idle" =>
             /\ full.res = "return"
             /\ Concat(sent) = SubSeq(full.text, 1, Len(Concat(sent)))
             /\ \A i \in 1..Len(sent) : Len(sent[i]) = 64 \/ Concat(sent) = full.text
             /\ pc["up"] = "upWrite" => k["up"] = Len(sent) + 1

\* An upload of three chunks, the last one short, succeeded
C3_Witness ==
    /\ UploadSucceeded
    /\ Len(UploadWritten) = 3 /\ Len(UploadWritten[3]) < 64
    /\ ~Includes(upIn.code, MarkerLoop)

\* An upload whose text is two full chunks succeeded
C3_WitnessFull ==
    /\ UploadSucceeded
    /\ Len(UploadWritten) = 2 /\ Len(UploadWritten[2]) = 64

(***************************************************************************)
(* C10: wrapCodeForUpload twice.                                           *)
(***************************************************************************)
\* C10: wrapCodeForUpload applied to what wrapCodeForUpload returned, with
\* the same options, returns its argument; and a source that contains both
\* 'void setup()' and 'void loop()' is returned as it is.
C10_WrapIdempotent ==
    /\ wrapped.n = 2 => wrapped.res = "return" /\ wrapped.text = wrapped.code
    /\ (wrapped.n = 1 /\ Includes(wrapped.source, MarkerSetup)
                      /\ Includes(wrapped.source, MarkerLoop))
          => wrapped.res = "return" /\ wrapped.text = wrapped.source

\* A source with one marker only was wrapped, with libraries, and wrapped again
C10_Witness ==
    /\ wrapped.n = 2
    /\ Includes(wrapped.source, MarkerSetup) /\ ~Includes(wrapped.source, MarkerLoop)
    /\ wrapped.options.libraries.defined /\ wrapped.text # wrapped.source

\* A complete sketch went through unchanged, with options null
C10_WitnessComplete ==
    /\ wrapped.n = 1 /\ wrapped.options.isNull
    /\ Includes(wrapped.source, MarkerSetup) /\ Includes(wrapped.source, MarkerLoop)
    /\ wrapped.text = wrapped.source

(***************************************************************************)
(* C11: the descriptor match of an Arduino Uno.                            *)
(***************************************************************************)
\* The step is task t entering identifyModel: from detectArduino once
\* port.open() resolved, or from getDeviceInfo / getDeviceCapabilities
IdentifyEnters(t) ==
    \/ /\ pc[t] = "open" /\ popen[tport[t]] = "opening" /\ popen'[tport[t]] = "opened"
    \/ /\ t = "user" /\ pc[t] = "idle" /\ calls' = calls + 1 /\ lastCall' = t
       /\ op'[t] \in {"info", "caps"} /\ isConnected

UnoDescriptor == [usbVendorId |-> 9025, usbProductId |-> 67]

\* C11: identifyModel entered while this.port reports 0x2341 / 0x0043 returns
\* "uno" from the descriptor match within the call: no writer or reader is
\* taken, nothing reaches a port, and no port is closed or reopened.
C11_UnoByDescriptor ==
    [][\A t \in Detectors :
          (IdentifyEnters(t) /\ port # NoPort /\ info[port] = UnoDescriptor) =>
              /\ ident' = [res |-> "return", label |-> LabelUno, err |-> "",
                           by |-> "descriptor", vendor |-> 9025]
              /\ out'[t].res = "return" /\ out'[t].label = LabelUno
              /\ pc'[t] = "idle"
              /\ wire' \in {wire, <<>>} /\ writer' = writer /\ reader' = reader
              /\ wlock' = wlock /\ rlock' = rlock /\ port' = port
              /\ \A p \in Ports : popen'[p] # popen[p] => p = tport[t] /\ pc[t] = "open"]_vars

\* getDeviceInfo identified the connected Uno again
C11_Witness ==
    /\ out["user"].op = "info" /\ out["user"].label = LabelUno
    /\ ident.by = "descriptor" /\ port # NoPort /\ info[port] = UnoDescriptor

\* detectArduino identified the Uno while the port of another detection was
\* still opening
C11_WitnessDetect ==
    /\ out["user"].op = "detect" /\ out["user"].label = LabelUno
    /\ ident.by = "descriptor" /\ \E p \in Ports : popen[p] = "opening"

(***************************************************************************)
(* C12: the vendor-only fallback.                                          *)
(***************************************************************************)
\* The label the vendor id alone determines
VendorLabel(vendor) ==
    IF vendor = 9025 THEN LabelUno
    ELSE IF vendor = 6790 THEN LabelNano
    ELSE IF vendor = 4292 THEN LabelEsp32
    ELSE LabelGeneric

\* identifyModel ended past its three strategies: by the fallback, or by the
\* catch around it
NoStrategyMatched == ident.by \in {"fallback", "catch"}

C12_WitnessEsp32 == ident.by = "fallback" /\ ident.vendor = 4292 /\ ident.label = LabelEsp32

C12_WitnessUno == ident.by = "fallback" /\ ident.vendor = 9025 /\ ident.label = LabelUno

C12_WitnessGeneric == ident.by = "fallback" /\ ident.vendor = 1027 /\ isConnected

C12_WitnessUnknown == ident.by = "catch" /\ ident.label = LabelUnknown /\ isConnected

(***************************************************************************)
(* C13: a write of the upload fails.                                       *)
(***************************************************************************)
\* The step is the write of chunk k["up"] rejecting: sendCodeChunked runs its
\* finally and uploadCode ends
UploadWriteFails == pc["up"] = "upWrite" /\ pc'["up"] = "idle"

\* C13: when the write of chunk k rejects, uploadCode throws the error of
\* that write; what reached the ports is the chunks before k and stays so;
\* the writer lock the upload took is free again; isConnected is as it was.
C13_WriteFailure ==
    [][UploadWriteFails =>
          /\ out'["up"] = [op |-> "upload", res |-> "throw", label |-> NoLabel,
                           err |-> "Network"]
          /\ wire' = wire
          /\ UploadWritten = SubSeq(upChunks, 1, k["up"] - 1)
          /\ ~wlock'[tport["up"]]
          /\ isConnected' = isConnected]_vars

\* The same with nothing else running: no other operation is in flight and
\* this.writer is still the writer of the upload
C13_WriteFailureAlone ==
    [][(UploadWriteFails /\ writer = tport["up"]
            /\ \A i \in 1..Len(wire) : wire[i].by = "up") =>
          /\ out'["up"] = [op |-> "upload", res |-> "throw", label |-> NoLabel,
                           err |-> "Network"]
          /\ wire' = wire
          /\ UploadWritten = SubSeq(upChunks, 1, k["up"] - 1)
          /\ ~wlock'[tport["up"]]
          /\ isConnected' = isConnected]_vars

(***************************************************************************)
(* C14: one writer at a time.                                              *)
(***************************************************************************)
\* The chunks the upload in flight has written so far reached one port
ChunksOnOnePort(w) ==
    \A i, j \in 1..Len(w) :
        (IsUploadWrite(w[i]) /\ IsUploadWrite(w[j])) => w[i].port = w[j].port

\* uploadCode is called while a command write is in flight on this.port
UploadCalledDuringCommand ==
    /\ UploadCalled /\ isConnected /\ port # NoPort
    /\ \E t \in Commanders : pc[t] = "write" /\ tport[t] = port

\* C14: the chunks of an upload all reach the port its writer was taken on,
\* whatever sendCommand runs meanwhile; and an uploadCode called while a
\* command write is in flight on this.port throws at once, writes nothing
\* and takes no lock.
C14_ExclusiveWriter ==
    [][/\ ChunksOnOnePort(wire')
       /\ UploadCalledDuringCommand =>
              /\ pc'["up"] = "idle"
              /\ out'["up"].res = "throw" /\ out'["up"].err = "TypeError"
              /\ wire' = <<>> /\ wlock' = wlock /\ writer' = writer]_vars

\* C14 for a command on the port the upload streams to: while the upload
\* holds the writer it took and this.writer and this.port still name it, a
\* sendCommand takes no writer and puts no write in flight
C14_CommandDuringUpload ==
    [][\A t \in Commanders :
          (/\ pc["up"] \in {"upWrite", "upDelay"} /\ pc'["up"] # "idle"
           /\ port' # NoPort /\ writer = port' /\ wlock[port']
           /\ ChunksOnOnePort(wire)
           /\ pc[t] # "write") => pc'[t] # "write"]_vars

(***************************************************************************)
(* C15: poll ticks and manual operations.                                  *)
(***************************************************************************)
\* A detectArduino or an uploadCode of the caller is in flight
ManualInFlight ==
    \/ pc["user"] # "idle" /\ op["user"] = "detect"
    \/ pc["up"] # "idle"

\* C15: while a detectArduino or an uploadCode of the caller is in flight, a
\* poll tick ends at once: it starts no scan and no detection, so this.port
\* is not replaced by the poll and one detection is in flight at most.
C15_PollsSerialized ==
    [][ManualInFlight =>
          /\ pc["poll"] = "idle" => pc'["poll"] = "idle"
          /\ pc["poll"] = "reqPort" => port' = port]_vars

(***************************************************************************)
(* C16: auto-reconnect failures.                                           *)
(***************************************************************************)
\* The step starts a poll tick (checkConnectionStatus is called)
TickStarts == pc["poll"] = "idle" /\ calls' = calls + 1 /\ lastCall' = "poll"

\* The step ends a poll tick
TickEnds ==
    /\ pc'["poll"] = "idle" /\ out'["poll"].op = "tick"
    /\ pc["poll"] # "idle" \/ TickStarts

TickErrors == {"NotSupported", "NotFound", "Network", "InvalidState", "PortNotOpen"}

\* C16: a poll tick that ran into an error (unsupported API, refused port
\* request, open failure, exception of the detection) ends by returning; the
\* status goes to the observers, the interval timer is as it was, and the
\* session is disconnected; a tick that starts while the session is
\* disconnected starts a scan again (or, without the API, ends at once).
C16_SilentReconnect ==
    [][/\ TickEnds =>
              /\ out'["poll"].res = "return"
              /\ out'["poll"].err \in TickErrors \cup {""}
              /\ out'["poll"].err \in TickErrors =>
                    /\ ~isConnected'
                    /\ lastStatus'.event = "status" /\ lastStatus'.to = statusCallbacks
                    /\ monitorInterval' = monitorInterval /\ timers' = timers
                    /\ isMonitoring' = isMonitoring
                    /\ ~isScanning'
       /\ (TickStarts /\ ~isConnected) =>
              IF supported THEN pc'["poll"] = "getPorts" /\ isScanning'
              ELSE pc'["poll"] = "idle" /\ out'["poll"].err = "NotSupported"]_vars

\* A reconnection failed at port.open(); the timer set by the earlier
\* connection is still running
C16_Witness ==
    /\ out["poll"].op = "tick" /\ out["poll"].res = "return" /\ out["poll"].err = "Network"
    /\ monitorInterval /\ ~isConnected /\ pc["poll"] = "idle"

C16_WitnessRefused ==
    /\ out["poll"].op = "tick" /\ out["poll"].res = "return" /\ out["poll"].err = "NotFound"
    /\ lastStatus.event = "status"

(***************************************************************************)
(* C17: auto-reconnect and stopMonitoring.                                 *)
(***************************************************************************)
\* stopMonitoring() was the latest call and has returned
MonitoringStopped == lastCall = "monitor" /\ ~isMonitoring /\ ~monitorInterval

\* C17: once stopMonitoring() has returned, the monitor starts no scan and
\* no detection, and monitoring becomes active again only by a call of
\* startMonitoring() from the user.
C17_NoReconnectWhenStopped ==
    [][/\ (MonitoringStopped /\ TickStarts) => (pc'["poll"] = "idle" /\ ~isScanning')
       /\ (~isMonitoring /\ isMonitoring') => (lastCall' = "monitor" /\ calls' = calls + 1)]_vars

(***************************************************************************)
(* C18: no probe waits for ever.                                           *)
(***************************************************************************)
\* identifyModel is inside a probe on an open port: a sendCommand is writing
\* or reading, or detectBaudRate is closing or reopening the port
Probing == pc["user"] \in {"write", "read", "readDone", "readAborted", "bclose", "bopen"}

\* C18: a probe of identifyModel on an open port always comes to an end,
\* whatever the device and the port do.
C18_ProbesComplete == Probing ~> pc["user"] = "idle"

\* C18 for the read alone: the timer of sendCommand ends the wait for an
\* answer
C18_ReadTimesOut == pc["user"] = "read" ~> pc["user"] # "read"

(***************************************************************************)
(* C19: detectBaudRate.                                                    *)
(***************************************************************************)
\* C19: detectBaudRate closes the port for each rate in the order of the
\* list up to the one it returns, the probe at the rate it returns was
\* answered with a non-empty text, and it returns null only after it has
\* closed the port for every rate of the list.
C19_FirstAnsweringRate ==
    /\ \A i \in 1..Len(baud.closed) : baud.closed[i] = commonBaudRates[i]
    /\ baud.res = "rate" =>
          /\ baud.reply # <<>>
          /\ baud.closed # <<>> /\ baud.rate = baud.closed[Len(baud.closed)]
    /\ baud.res = "null" => baud.closed = commonBaudRates

\* C19, the answer: a rate is returned although the probe got an empty text
C19_BlankAnswerAccepted == baud.res = "rate" /\ baud.reply = <<>>

\* C19, the rates: null is returned although some rates were never tried
C19_RatesSkipped == baud.res = "null" /\ Len(baud.closed) < Len(commonBaudRates)

(***************************************************************************)
(* C20: scanForDevices.  The page scans, detects, uploads and disconnects, *)
(* on a fresh session and on a connected one.                              *)
(***************************************************************************)
InitScan == Constructed(SessionInputs, MaxCalls) \/ Connected(SessionInputs, 1 + MaxCalls)

NextScan ==
    \/ NextCaller
    \/ CallScanForDevices
    \/ ScanGetPortsResolve
    \/ ScanGetPortsReject

SpecScan == InitScan /\ [][NextScan]_vars

Scanners == {"user", "poll"}

\* The page calls scanForDevices in this step
ScanCalled == calls' = calls + 1 /\ lastCall' = "user" /\ op'["user"] = "scan"

\* The scan of t passes its only suspension point in this step
ScanEnds(t) == pc[t] = "getPorts" /\ pc'[t] # "getPorts"

\* A step of scanForDevices: its call, or its continuation after getPorts
ScanStep(t) ==
    \/ t = "user" /\ ScanCalled
    \/ pc[t] # "getPorts" /\ pc'[t] = "getPorts"
    \/ ScanEnds(t)

\* C20: a step of scanForDevices leaves this.port, reader, writer and
\* isConnected as they were, opens and closes no port, takes no lock, writes
\* nothing and grants nothing; when the scan ends isScanning is false, and
\* detectedDevices holds exactly the descriptor matches of the granted
\* ports (or is unchanged when getPorts failed); a scan refused for lack of
\* Web Serial ends at once with that error and isScanning false.
C20_ScanTouchesNothing ==
    [][\A t \in Scanners :
          /\ ScanStep(t) =>
                /\ port' = port /\ reader' = reader /\ writer' = writer
                /\ isConnected' = isConnected
                /\ popen' = popen /\ rlock' = rlock /\ wlock' = wlock
                /\ granted' = granted
                /\ wire' \in {wire, <<>>}
                /\ \A u \in Tasks \ {t} : pc'[u] = pc[u]
          /\ ScanEnds(t) =>
                /\ ~isScanning'
                /\ detectedDevices' \in {detectedDevices, scannedDevices(St)}
                /\ (t = "user" /\ out'[t].res = "return") =>
                      detectedDevices' = scannedDevices(St)
                /\ (t = "user" /\ out'[t].res = "throw") =>
                      detectedDevices' = detectedDevices
                /\ t = "poll" => detectedDevices' = scannedDevices(St)
          /\ (t = "user" /\ ScanCalled) =>
                IF supported
                THEN pc'[t] = "getPorts" /\ isScanning'
                ELSE /\ pc'[t] = "idle" /\ ~isScanning'
                     /\ out'[t] = [op |-> "scan", res |-> "throw",
                                   label |-> NoLabel, err |-> "NotSupported"]]_vars

\* C20, normal return: a scan on a connected session found the board
C20_Witness ==
    /\ out["user"].op = "scan" /\ out["user"].res = "return" /\ pc["user"] = "idle"
    /\ isConnected /\ port # NoPort /\ popen[port] = "opened"
    /\ detectedDevices # {} /\ ~isScanning

\* C20, exception: getPorts failed during an upload
C20_WitnessFailed ==
    /\ out["user"].op = "scan" /\ out["user"].err = "GetPortsFailed"
    /\ pc["up"] # "idle" /\ writer # NoPort /\ ~isScanning

\* C20, exception: no Web Serial
C20_WitnessRefused ==
    /\ out["user"].op = "scan" /\ out["user"].err = "NotSupported" /\ ~isScanning

(***************************************************************************)
(* C21: one session at a time.                                             *)
(***************************************************************************)
\* C21: in every state every port that is open is the one this.port names,
\* so at most one port is open.
C21_OneOpenPort == \A p \in Ports : popen[p] = "opened" => port = p

\* C21, the leak: a second detectArduino returned on another port while the
\* port of the first one is still open
C21_PortLeftOpen ==
    /\ isConnected /\ \A t \in Tasks : pc[t] = "idle"
    /\ \E p \in Ports : popen[p] = "opened" /\ port # p /\ port # NoPort
    /\ popen[port] = "opened"

(***************************************************************************)
(* C22: an upload runs only on a connected session.                        *)
(***************************************************************************)
\* An upload chunk reaches a port in this step
ChunkWritten == pc["up"] = "upWrite" /\ pc'["up"] = "upDelay"

\* C22: while uploadCode is between its first and its last chunk write
\* isConnected is true, and every chunk is written on a connected session.
C22_UploadWhileConnected ==
    [][/\ pc'["up"] \in {"upWrite", "upDelay"} => isConnected'
       /\ ChunkWritten => isConnected]_vars

\* C22, the upload goes on: a chunk has been written after a detectArduino
\* failed and set isConnected to false
C22_WritesWhileDisconnected ==
    /\ ~isConnected /\ pc["up"] = "upDelay" /\ k["up"] > 1
    /\ out["user"].op = "detect" /\ out["user"].res = "throw"
    /\ lastCall = "user" /\ port # NoPort

(***************************************************************************)
(* C23: the disconnected state owns no port.                               *)
(***************************************************************************)
NothingInFlight == \A t \in Tasks : pc[t] = "idle"

\* C23: whenever isConnected is false and no operation is in flight,
\* this.port is null and every port is closed.
C23_DisconnectedOwnsNothing ==
    (~isConnected /\ NothingInFlight) =>
        (port = NoPort /\ \A p \in Ports : popen[p] = "closed")

\* C23, after a failed detection: the port of the session is still open
\* and still referenced
C23_FailedDetectKeepsPort ==
    /\ ~isConnected /\ NothingInFlight
    /\ out["user"].op = "detect" /\ out["user"].res = "throw"
    /\ port # NoPort /\ popen[port] = "opened"

(***************************************************************************)
(* C24: the order of the identification strategies.                        *)
(***************************************************************************)
\* The positions of a task inside sendCommand, readResponse or detectBaudRate
ProbePcs == {"write", "read", "readDone", "readAborted", "bclose", "bopen"}

\* The strategy task t is in: 0 before any probe (the descriptor match),
\* 1 the command/response probe, 2 the behavioural probe
Stage(t) ==
    IF pc[t] \notin ProbePcs THEN 0 ELSE IF ctx[t] = "cr" THEN 1 ELSE 2

StageAfter(t) ==
    IF pc'[t] \notin ProbePcs THEN 0 ELSE IF ctx'[t] = "cr" THEN 1 ELSE 2

\* identifyModel of task t ends in this step
LadderEnds(t) ==
    /\ pc[t] \in ProbePcs \/ IdentifyEnters(t)
    /\ pc'[t] = "idle"

\* The timer of sendCommand fires in this step of t: the read stays behind
ProbeTimesOut(t) ==
    /\ pc[t] = "read" /\ pc'[t] # "read"
    /\ rlock[tport[t]] = "read" /\ rlock'[tport[t]] = "read"
    /\ \A u \in Tasks \ {t} : pc'[u] = pc[u]

\* C24: a task inside identifyModel moves from the descriptor match to the
\* command/response probe to the behavioural probe, one at a time and never
\* back; the strategy that decides is the first that yielded a label: the
\* descriptor match decides before any probe is sent, a probe decides only
\* for a port the descriptor match does not know, and the result is the
\* label of the deciding strategy; a probe that timed out is passed over:
\* the next command follows, and after the behavioural probe the fallback.
C24_LadderOrder ==
    [][\A t \in Detectors :
          /\ pc'[t] \in ProbePcs => StageAfter(t) \in {Stage(t), Stage(t) + 1}
          /\ LadderEnds(t) =>
                /\ ident'.by \in {"guard", "descriptor", "command", "behavior",
                                  "fallback", "catch"}
                /\ ident'.by = "guard" => Stage(t) = 0 /\ port' = NoPort
                /\ ident'.by = "descriptor" =>
                      /\ Stage(t) = 0 /\ port' # NoPort
                      /\ ident'.label = identifyByUSBInfo(info[port'])
                      /\ ident'.label # NoLabel
                /\ ident'.by = "command" =>
                      /\ Stage(t) = 1 /\ pc[t] \in {"read", "readDone"}
                      /\ ident'.label \in {mapResponseToModel(Trim(r)) : r \in Replies}
                /\ ident'.by = "behavior" =>
                      /\ Stage(t) = 2 /\ port' # NoPort
                      /\ ident'.label = behavioralLabel(info[port'])
                /\ ident'.by = "fallback" =>
                      /\ port' # NoPort
                      /\ ident'.label = fallbackLabel(info[port'])
                /\ ident'.by = "catch" =>
                      port' = NoPort /\ ident'.label = LabelUnknown
                /\ (ident'.by \in {"command", "behavior", "fallback"} /\ port' # NoPort) =>
                      identifyByUSBInfo(info[port']) = NoLabel
          /\ (ProbeTimesOut(t) /\ ctx[t] = "cr") =>
                IF pc'[t] \in ProbePcs
                THEN /\ pc'[t] = "write"
                     /\ IF k[t] < Len(commands)
                        THEN ctx'[t] = "cr" /\ k'[t] = k[t] + 1
                        ELSE ctx'[t] = "beh"
                ELSE /\ LadderEnds(t) /\ ident'.by \in {"fallback", "catch"}
                     /\ \/ port' = NoPort
                        \/ popen'[port'] # "opened"
                        \/ wlock'[port']
          /\ (ProbeTimesOut(t) /\ ctx[t] = "beh") =>
                LadderEnds(t) /\ ident'.by \in {"fallback", "catch"}]_vars

\* C24, first success: the behavioural probe decided after the command
\* probe had passed
C24_Witness ==
    /\ ident.by = "behavior" /\ ident.res = "return" /\ pc["user"] = "idle"
    /\ out["user"].op = "detect" /\ out["user"].label = ident.label

\* C24, exhaustion: the fallback decided
C24_WitnessFallback ==
    /\ ident.by = "fallback" /\ pc["user"] = "idle"
    /\ out["user"].label = ident.label /\ port # NoPort

\* C24, the command probe decided
C24_WitnessCommand ==
    /\ ident.by = "command" /\ pc["user"] = "idle" /\ out["user"].label = ident.label

(***************************************************************************)
(* C25: "generic" only when the ladder is exhausted.                       *)
(***************************************************************************)
\* C25: whenever identifyModel returned "generic", the fallback returned it,
\* after the three strategies before it had produced no label.
C25_GenericOnlyByFallback ==
    (ident.res = "return" /\ ident.label = LabelGeneric) => ident.by = "fallback"

\* C25, the command probe: the answer 'ready' to the bare line makes an
\* Arduino (vendor 0x2341) "generic"
C25_GenericByCommand ==
    /\ ident.label = LabelGeneric /\ ident.by = "command" /\ ident.vendor = 9025
    /\ out["user"].op = "detect" /\ out["user"].label = LabelGeneric

\* C25, the behavioural probe: behavioralGuess returns "generic"
C25_GenericByBehavior ==
    /\ ident.label = LabelGeneric /\ ident.by = "behavior"
    /\ out["user"].op = "detect" /\ out["user"].label = LabelGeneric

(***************************************************************************)
(* C26: the command/response probe.                                        *)
(***************************************************************************)
\* Task t leaves the write of a probe command in this step
CommandWriteSettles(t) ==
    /\ pc[t] = "write" /\ ctx[t] = "cr"
    /\ pc'[t] # "write" \/ ctx'[t] # "cr" \/ k'[t] # k[t]

\* C26: the commands go out in the order of the list; once the write of a
\* command has settled the probe either awaits the reply to that command,
\* or the write had failed and the ladder ends in the same step: no command
\* is followed by the next one without its reply having been awaited; and
\* a reply that decides is the reply to the command just sent.
C26_EveryReplyRead ==
    [][\A t \in Detectors :
          /\ (ctx[t] = "cr" /\ ctx'[t] = "cr") => k'[t] \in {k[t], k[t] + 1}
          /\ CommandWriteSettles(t) => pc'[t] \in {"read", "idle"}
          /\ (LadderEnds(t) /\ ident'.by = "command") =>
                /\ pc[t] = "read" /\ ctx[t] = "cr"
                /\ \E r \in Replies :
                      /\ Includes(Trim(r), commands[k[t]].expected)
                      /\ ident'.label = mapResponseToModel(Trim(r))]_vars

\* C26, after a timeout: the third command has been written although the
\* reply to the second was never awaited, while the read left behind by
\* the first still holds the reader
C26_ReplyNeverRead ==
    /\ pc["user"] = "write" /\ ctx["user"] = "cr" /\ k["user"] = 3
    /\ port # NoPort /\ rlock[port] = "read" /\ popen[port] = "opened"

(***************************************************************************)
(* C27: a connected session has an open port.                              *)
(***************************************************************************)
\* C27: whenever isConnected is true and no operation is in flight,
\* this.port is set and that port is open.
C27_ConnectedPortOpen ==
    (isConnected /\ NothingInFlight) => (port # NoPort /\ popen[port] = "opened")

\* C27, baud-rate cycling: detectArduino returned a label and set
\* isConnected although detectBaudRate had left the port closed
C27_ConnectedOnClosedPort ==
    /\ isConnected /\ NothingInFlight
    /\ port # NoPort /\ popen[port] = "closed"
    /\ baud.res = "null" /\ Len(baud.closed) = 1
    /\ out["user"].op = "detect" /\ out["user"].res = "return"
    /\ out["disc"] = NoOutcome

(***************************************************************************)
(* C28: what a finished sendCommand leaves behind.                         *)
(***************************************************************************)
CommandInFlight(t) == pc[t] \in {"write", "read", "readDone", "readAborted"}

\* C28: when no sendCommand is in flight no port has its reader or writer
\* locked or a read pending, and when a sendCommand starts writing no read
\* of an earlier command is pending on its port.
C28_CommandLeavesNothing ==
    /\ (\A t \in Tasks : ~CommandInFlight(t)) =>
            \A p \in Ports : rlock[p] = "free" /\ ~wlock[p]
    /\ \A t \in Commanders : pc[t] = "write" => rlock[tport[t]] = "free"

\* C28, timeout: detectArduino returned while the read of its last command
\* is still pending and holds the reader
C28_ReadLeftPending ==
    /\ NothingInFlight /\ out["user"].op = "detect" /\ out["user"].res = "return"
    /\ port # NoPort /\ popen[port] = "opened" /\ rlock[port] = "read"
    /\ out["disc"] = NoOutcome

\* C28, failed write: detectArduino returned and the writer is still locked
C28_WriterLeftLocked ==
    /\ NothingInFlight /\ out["user"].op = "detect" /\ out["user"].res = "return"
    /\ port # NoPort /\ popen[port] = "opened" /\ wlock[port]
    /\ out["disc"] = NoOutcome

(***************************************************************************)
(* C29: the status a poll tick delivers.                                   *)
(***************************************************************************)
\* C29: the status object checkConnectionStatus delivered last has its
\* connected field equal to isConnected at the moment of the delivery.
C29_StatusIsCurrent ==
    lastStatus.event = "status" => lastStatus.connected = lastStatus.at

\* C29, auto-reconnect: the tick reconnected, and the status it delivered
\* after that says connected: false
C29_StaleAfterReconnect ==
    /\ lastStatus.event = "status" /\ ~lastStatus.connected /\ lastStatus.at
    /\ out["poll"].op = "tick" /\ out["poll"].label # NoLabel
    /\ isConnected /\ pc["poll"] = "idle"

\* C29, a detection by the caller ended during the tick
C29_StaleAfterDetect ==
    /\ lastStatus.event = "status" /\ ~lastStatus.connected /\ lastStatus.at
    /\ out["poll"].op = "tick" /\ out["poll"].label = NoLabel
    /\ out["user"].op = "detect" /\ out["user"].res = "return"

(***************************************************************************)
(* C30: the polling timer.                                                 *)
(***************************************************************************)
\* A connected session on which the page detects again, disconnects, and
\* starts and stops the monitor
NextTimer ==
    \/ NextLadder
    \/ CallStartMonitoring
    \/ CallStopMonitoring

SpecTimer == InitConnected /\ [][NextTimer]_vars

\* detectArduino notifies its observers of a connection in this step
ConnectionNotified == lastNote' # lastNote /\ lastNote'.event = "connection"

\* C30, the timer: there is at most one timer, isMonitoring is true exactly
\* when it is set, startMonitoring while monitoring adds none, and
\* stopMonitoring leaves none.
C30_TimerMatchesFlag ==
    [][/\ timers' \in {0, 1}
       /\ isMonitoring' = monitorInterval' /\ monitorInterval' = (timers' = 1)
       /\ (isMonitoring /\ isMonitoring') => timers' = timers
       /\ (lastCall' = "monitor" /\ calls' = calls + 1) =>
             \/ isMonitoring' /\ timers' = 1
             \/ ~isMonitoring' /\ timers' = 0]_vars

\* C30: the timer is as above, and every step in which detectArduino
\* reports a successful connection leaves monitoring active.
C30_OneTimer ==
    [][/\ timers' \in {0, 1}
       /\ isMonitoring' = monitorInterval' /\ monitorInterval' = (timers' = 1)
       /\ (isMonitoring /\ isMonitoring') => timers' = timers
       /\ ConnectionNotified => (isMonitoring' /\ timers' = 1)]_vars

\* C30, connected without monitoring: detectArduino returned a label and no
\* timer is set
C30_ConnectedUnmonitored ==
    /\ isConnected /\ ~isMonitoring /\ timers = 0
    /\ lastNote.event = "connection" /\ lastNote.port = NoPort
    /\ \E t \in Detectors : out[t].res = "return" /\ out[t].label = LabelUnknown

=============================================================================
